---- MODULE Spec2Model ----
(***************************************************************************)
(* Model of the collector (async_headphone_scraper.py: main and            *)
(* scrape_subreddit) and of the analyzer's reader (nu_eta/visualization.py *)
(* load_jsonl).                                                            *)
(*                                                                         *)
(* A record keeps the fields the two streams are linked by: a post record  *)
(* is [id, comments], a comment record is [id, post_id].  The remaining    *)
(* fields (title, score, url, author, timestamps, body) are copied from    *)
(* the client object and never read again, so they are left out.  Only the *)
(* log messages of the save phase, of the except clause and of the finally *)
(* clause are kept; the progress messages are left out.                    *)
(*                                                                         *)
(* A line of a file is a sequence of JSON tokens, each token a string.     *)
(***************************************************************************)
EXTENDS Integers, Sequences, FiniteSets, TLC

\* ------------------------------------------------------------------ bounds
\* The listing yields at most POST_LIMIT posts (500 in the source).
POST_LIMIT == 3
\* Total number of nodes (comments and placeholders) the client serves in a run.
MaxNodes == 3
\* Number of lines of the file given to load_jsonl.
MaxLines == 3

\* --------------------------------------------------------------- constants
POSTS_FILE == "nu_eta/posts_async.jsonl"
COMMENTS_FILE == "nu_eta/comments_async.jsonl"
Files == {POSTS_FILE, COMMENTS_FILE}

VARIABLES
    pc,                \* position of the single flow of control of main
    reddit,            \* the client session: "none", "open" or "closed"
    closes,            \* number of reddit.close() calls made
    exc,               \* "none", or the position at which an unhandled exception was raised
    listed,            \* ids of the posts subreddit.new has yielded, in order
    served,            \* per listed post, what the client answered for its comments
    inflight,          \* listing positions whose comment retrieval is awaited
    next_id,           \* next fresh node id of the client
    post_count,
    post_data,
    comments,          \* submission.comments.list() of the current post
    ci,                \* index of the for loop over comments
    all_posts_data,
    all_comments_data,
    files,             \* the two destination files
    opens,             \* per file, how often this run opened it for writing
    log,
    lpc,               \* position of load_jsonl
    f,                 \* the lines of the file load_jsonl reads
    li,                \* index of the next line to read
    data,              \* load_jsonl's list of parsed records
    printed            \* the lines load_jsonl reported as skipped

svars == <<pc, reddit, closes, exc, listed, served, inflight, next_id, post_count,
           post_data, comments, ci, all_posts_data, all_comments_data, files,
           opens, log>>
lvars == <<lpc, f, li, data, printed>>
vars == <<pc, reddit, closes, exc, listed, served, inflight, next_id, post_count,
          post_data, comments, ci, all_posts_data, all_comments_data, files,
          opens, log, lpc, f, li, data, printed>>

\* ------------------------------------------------------------ serialization
\* A number as a JSON token.
Num(n) == ToString(n)

\* json.dumps of a comment record (default separators ", " and ": ").
json_dumps_comment(c) ==
    <<"{", "\"id\"", ":", " ", Num(c.id), ",", " ",
      "\"post_id\"", ":", " ", Num(c.post_id), "}">>

RECURSIVE json_dumps_list(_)
json_dumps_list(cs) ==
    IF cs = <<>> THEN <<>>
    ELSE IF Len(cs) = 1 THEN json_dumps_comment(cs[1])
    ELSE json_dumps_comment(cs[1]) \o <<",", " ">> \o json_dumps_list(Tail(cs))

\* json.dumps of a post record, its embedded comment list included.
json_dumps_post(p) ==
    <<"{", "\"id\"", ":", " ", Num(p.id), ",", " ", "\"comments\"", ":", " ", "[">>
    \o json_dumps_list(p.comments) \o <<"]", "}">>

\* The lines written for a collection: json.dumps(item) + "\n" per item.
PostLines(ps) == [i \in 1..Len(ps) |-> json_dumps_post(ps[i]) \o <<"\n">>]
CommentLines(cs) == [i \in 1..Len(cs) |-> json_dumps_comment(cs[i]) \o <<"\n">>]

\* ------------------------------------------------------------------ helpers
NoPost == [id |-> 0, comments |-> <<>>]
NoFile == [exists |-> FALSE, lines |-> <<>>]
Entry(level, msg, n) == [level |-> level, msg |-> msg, n |-> n]

\* What an earlier run left in the destination files: nothing, or the records of
\* a run that collected one post with one comment.
PriorPost == [id |-> 1, comments |-> <<[id |-> 0, post_id |-> 1]>>]
PriorRunFiles ==
    { [n \in Files |-> NoFile],
      [n \in Files |-> [exists |-> TRUE,
                        lines |-> IF n = POSTS_FILE
                                  THEN PostLines(<<PriorPost>>)
                                  ELSE CommentLines(PriorPost.comments)]] }

\* The node lists the client can serve from id `first` on: every sequence of
\* comments and "load more" placeholders within the node budget.
Kinds == {"Comment", "MoreComments"}
NodeLists(first) ==
    UNION { { [i \in 1..n |-> [kind |-> ks[i], id |-> first + i - 1]] :
              ks \in [1..n -> Kinds] } : n \in 0..(MaxNodes + 1 - first) }

\* The ids the listing can yield next: a new post, or a post it yielded before.
NextIds == {Len(listed) + 1} \cup {listed[i] : i \in DOMAIN listed}

AwaitTraversal == {"subreddit", "next", "submission", "replace_more"}

LoadIdle == lpc = "idle" /\ f = <<>> /\ li = 1 /\ data = <<>> /\ printed = <<>>

\* ---------------------------------------------------------------- collector
Init ==
    /\ pc = "start"
    /\ reddit = "none"
    /\ closes = 0
    /\ exc = "none"
    /\ listed = <<>>
    /\ served = <<>>
    /\ inflight = {}
    /\ next_id = 1
    /\ post_count = 0
    /\ post_data = NoPost
    /\ comments = <<>>
    /\ ci = 1
    /\ all_posts_data = <<>>
    /\ all_comments_data = <<>>
    /\ files \in PriorRunFiles
    /\ opens = [n \in Files |-> 0]
    /\ log = <<>>
    /\ LoadIdle

\* main, line 110: the session is created; the try block is entered.
Main ==
    /\ pc = "start"
    /\ reddit' = "open"
    /\ pc' = "subreddit"
    /\ UNCHANGED <<closes, exc, listed, served, inflight, next_id, post_count,
                   post_data, comments, ci, all_posts_data, all_comments_data,
                   files, opens, log>>
    /\ UNCHANGED lvars

\* main, line 110: creating the session raises; there is nothing to close.
MainFail ==
    /\ pc = "start"
    /\ exc' = "start"
    /\ pc' = "exited"
    /\ UNCHANGED <<reddit, closes, listed, served, inflight, next_id, post_count,
                   post_data, comments, ci, all_posts_data, all_comments_data,
                   files, opens, log>>
    /\ UNCHANGED lvars

\* scrape_subreddit, lines 37-43: the subreddit is looked up, the accumulators
\* are created.
Subreddit ==
    /\ pc = "subreddit"
    /\ all_posts_data' = <<>>
    /\ all_comments_data' = <<>>
    /\ post_count' = 0
    /\ pc' = "next"
    /\ UNCHANGED <<reddit, closes, exc, listed, served, inflight, next_id,
                   post_data, comments, ci, files, opens, log>>
    /\ UNCHANGED lvars

\* Variant of NextPost: the record reuses the comment list of the previous record instead of a new empty one.
NextPost_SharedList ==
    /\ pc = "next"
    /\ Len(listed) < POST_LIMIT
    /\ \E id \in NextIds :
        /\ listed' = Append(listed, id)
        /\ post_data' = [id |-> id, comments |-> post_data.comments]
    /\ served' = Append(served, [status |-> "pending", nodes |-> <<>>])
    /\ post_count' = post_count + 1
    /\ inflight' = inflight \cup {post_count + 1}
    /\ pc' = "submission"
    /\ UNCHANGED <<reddit, closes, exc, next_id, comments, ci, all_posts_data,
                   all_comments_data, files, opens, log>>
    /\ UNCHANGED lvars

\* Lines 44-63: the listing yields a post; its record is built with an empty
\* comment list and the submission is requested.
NextPost ==
    /\ pc = "next"
    /\ Len(listed) < POST_LIMIT
    /\ \E id \in NextIds :
        /\ listed' = Append(listed, id)
        /\ post_data' = [id |-> id, comments |-> <<>>]
    /\ served' = Append(served, [status |-> "pending", nodes |-> <<>>])
    /\ post_count' = post_count + 1
    /\ inflight' = inflight \cup {post_count + 1}
    /\ pc' = "submission"
    /\ UNCHANGED <<reddit, closes, exc, next_id, comments, ci, all_posts_data,
                   all_comments_data, files, opens, log>>
    /\ UNCHANGED lvars

\* Line 44: the listing is exhausted; the loop ends.
ListingEnd ==
    /\ pc = "next"
    /\ pc' = "save_posts"
    /\ UNCHANGED <<reddit, closes, exc, listed, served, inflight, next_id,
                   post_count, post_data, comments, ci, all_posts_data,
                   all_comments_data, files, opens, log>>
    /\ UNCHANGED lvars

\* Lines 63-65: the submission arrives; the expansion of its comment tree is
\* requested.
SubmissionOk ==
    /\ pc = "submission"
    /\ pc' = "replace_more"
    /\ UNCHANGED <<reddit, closes, exc, listed, served, inflight, next_id,
                   post_count, post_data, comments, ci, all_posts_data,
                   all_comments_data, files, opens, log>>
    /\ UNCHANGED lvars

\* Variant of ExceptRedditAPIException: the API error is not recovered and ends the run.
ExceptAbort ==
    /\ served' = [served EXCEPT ![post_count] = [status |-> "api_error", nodes |-> <<>>]]
    /\ inflight' = inflight \ {post_count}
    /\ exc' = pc
    /\ pc' = "finally"
    /\ UNCHANGED <<reddit, closes, listed, next_id, post_count, post_data,
                   comments, ci, all_posts_data, all_comments_data, files, opens, log>>
    /\ UNCHANGED lvars

\* Lines 84-87: the except clause logs the error; the post record, its comment
\* list as it stands, is appended and the loop goes on.
ExceptRedditAPIException ==
    /\ served' = [served EXCEPT ![post_count] = [status |-> "api_error", nodes |-> <<>>]]
    /\ inflight' = inflight \ {post_count}
    /\ log' = Append(log, Entry("error", "Could not process comments for post", post_data.id))
    /\ all_posts_data' = Append(all_posts_data, post_data)
    /\ pc' = "next"
    /\ UNCHANGED <<reddit, closes, exc, listed, next_id, post_count, post_data,
                   comments, ci, all_comments_data, files, opens>>
    /\ UNCHANGED lvars

\* Line 63 raises RedditAPIException.
SubmissionApiError ==
    /\ pc = "submission"
    /\ ExceptRedditAPIException

\* Line 65 raises RedditAPIException.
ReplaceMoreApiError ==
    /\ pc = "replace_more"
    /\ ExceptRedditAPIException

\* Lines 65-67: the tree is expanded and flattened into the node list.
ReplaceMoreOk ==
    /\ pc = "replace_more"
    /\ \E nodes \in NodeLists(next_id) :
        /\ comments' = nodes
        /\ served' = [served EXCEPT ![post_count] = [status |-> "ok", nodes |-> nodes]]
        /\ next_id' = next_id + Len(nodes)
    /\ inflight' = inflight \ {post_count}
    /\ ci' = 1
    /\ pc' = "flatten"
    /\ UNCHANGED <<reddit, closes, exc, listed, post_count, post_data,
                   all_posts_data, all_comments_data, files, opens, log>>
    /\ UNCHANGED lvars

\* Variant of FlattenStep: the record is appended to the embedded list only.
FlattenStep_OnlyEmbedded ==
    /\ pc = "flatten"
    /\ ci <= Len(comments)
    /\ LET comment == comments[ci]
           comment_data == [id |-> comment.id, post_id |-> post_data.id]
       IN  IF comment.kind = "Comment"
           THEN /\ post_data' = [post_data EXCEPT !.comments = Append(@, comment_data)]
                /\ UNCHANGED all_comments_data
           ELSE UNCHANGED <<post_data, all_comments_data>>
    /\ ci' = ci + 1
    /\ UNCHANGED <<pc, reddit, closes, exc, listed, served, inflight, next_id,
                   post_count, comments, all_posts_data, files, opens, log>>
    /\ UNCHANGED lvars

\* Variant of FlattenStep: the record is put at the front of both lists.
FlattenStep_Prepend ==
    /\ pc = "flatten"
    /\ ci <= Len(comments)
    /\ LET comment == comments[ci]
           comment_data == [id |-> comment.id, post_id |-> post_data.id]
       IN  IF comment.kind = "Comment"
           THEN /\ post_data' = [post_data EXCEPT !.comments = <<comment_data>> \o @]
                /\ all_comments_data' = <<comment_data>> \o all_comments_data
           ELSE UNCHANGED <<post_data, all_comments_data>>
    /\ ci' = ci + 1
    /\ UNCHANGED <<pc, reddit, closes, exc, listed, served, inflight, next_id,
                   post_count, comments, all_posts_data, files, opens, log>>
    /\ UNCHANGED lvars

\* Lines 68-83: one iteration of the loop over the node list.
FlattenStep ==
    /\ pc = "flatten"
    /\ ci <= Len(comments)
    /\ LET comment == comments[ci]
           comment_data == [id |-> comment.id, post_id |-> post_data.id]
       IN  IF comment.kind = "Comment"
           THEN /\ post_data' = [post_data EXCEPT !.comments = Append(@, comment_data)]
                /\ all_comments_data' = Append(all_comments_data, comment_data)
           ELSE UNCHANGED <<post_data, all_comments_data>>
    /\ ci' = ci + 1
    /\ UNCHANGED <<pc, reddit, closes, exc, listed, served, inflight, next_id,
                   post_count, comments, all_posts_data, files, opens, log>>
    /\ UNCHANGED lvars

\* Variant of AppendPost: line 87 sits inside the except clause, so a post without error is not appended.
AppendPost_OnlyInExcept ==
    /\ pc = "flatten"
    /\ ci > Len(comments)
    /\ pc' = "next"
    /\ UNCHANGED <<reddit, closes, exc, listed, served, inflight, next_id,
                   post_count, post_data, comments, ci, all_posts_data,
                   all_comments_data, files, opens, log>>
    /\ UNCHANGED lvars

\* Variant of AppendPost: the post line is written to the posts file as soon as the post is processed.
AppendPost_WriteThrough ==
    /\ pc = "flatten"
    /\ ci > Len(comments)
    /\ all_posts_data' = Append(all_posts_data, post_data)
    /\ files' = [files EXCEPT ![POSTS_FILE] =
                    [exists |-> TRUE,
                     lines |-> Append(@.lines, json_dumps_post(post_data) \o <<"\n">>)]]
    /\ pc' = "next"
    /\ UNCHANGED <<reddit, closes, exc, listed, served, inflight, next_id,
                   post_count, post_data, comments, ci, all_comments_data,
                   opens, log>>
    /\ UNCHANGED lvars

\* Line 87, reached from the end of the try block.
AppendPost ==
    /\ pc = "flatten"
    /\ ci > Len(comments)
    /\ all_posts_data' = Append(all_posts_data, post_data)
    /\ pc' = "next"
    /\ UNCHANGED <<reddit, closes, exc, listed, served, inflight, next_id,
                   post_count, post_data, comments, ci, all_comments_data,
                   files, opens, log>>
    /\ UNCHANGED lvars

\* Variant of UnhandledFailure: main has no finally clause, so the exception leaves the session open.
UnhandledFailure_NoCleanup ==
    /\ pc \in AwaitTraversal
    /\ exc' = pc
    /\ inflight' = {}
    /\ pc' = "exited"
    /\ UNCHANGED <<reddit, closes, listed, served, next_id, post_count,
                   post_data, comments, ci, all_posts_data, all_comments_data,
                   files, opens, log>>
    /\ UNCHANGED lvars

\* Any awaited client call of the traversal raises something other than
\* RedditAPIException: nothing catches it before main's finally clause.
UnhandledFailure ==
    /\ pc \in AwaitTraversal
    /\ exc' = pc
    /\ inflight' = {}
    /\ pc' = "finally"
    /\ UNCHANGED <<reddit, closes, listed, served, next_id, post_count,
                   post_data, comments, ci, all_posts_data, all_comments_data,
                   files, opens, log>>
    /\ UNCHANGED lvars

\* Variant of SavePosts: an empty post collection is raised as an error.
SavePosts_EmptyIsError ==
    /\ pc = "save_posts"
    /\ IF all_posts_data # <<>>
       THEN /\ files' = [files EXCEPT ![POSTS_FILE] =
                            [exists |-> TRUE, lines |-> PostLines(all_posts_data)]]
            /\ opens' = [opens EXCEPT ![POSTS_FILE] = @ + 1]
            /\ log' = Append(log, Entry("info", "Successfully saved posts",
                                        Len(all_posts_data)))
            /\ pc' = "save_comments"
            /\ UNCHANGED exc
       ELSE /\ exc' = "save_posts"
            /\ pc' = "finally"
            /\ UNCHANGED <<files, opens, log>>
    /\ UNCHANGED <<reddit, closes, listed, served, inflight, next_id,
                   post_count, post_data, comments, ci, all_posts_data,
                   all_comments_data>>
    /\ UNCHANGED lvars

\* Lines 89-95: the posts file is opened with "w" (which truncates it) and
\* written line by line only if a post was collected; otherwise the empty
\* collection is logged.
SavePosts ==
    /\ pc = "save_posts"
    /\ IF all_posts_data # <<>>
       THEN /\ files' = [files EXCEPT ![POSTS_FILE] =
                            [exists |-> TRUE, lines |-> PostLines(all_posts_data)]]
            /\ opens' = [opens EXCEPT ![POSTS_FILE] = @ + 1]
            /\ log' = Append(log, Entry("info", "Successfully saved posts",
                                        Len(all_posts_data)))
       ELSE /\ log' = Append(log, Entry("info", "No posts found to save.", 0))
            /\ UNCHANGED <<files, opens>>
    /\ pc' = "save_comments"
    /\ UNCHANGED <<reddit, closes, exc, listed, served, inflight, next_id,
                   post_count, post_data, comments, ci, all_posts_data,
                   all_comments_data>>
    /\ UNCHANGED lvars

\* Lines 90-92 fail: either the open fails and the file is untouched (k = -1),
\* or the file is truncated, k lines are written and a write fails.
SavePostsFail ==
    /\ pc = "save_posts"
    /\ all_posts_data # <<>>
    /\ \E k \in -1..(Len(all_posts_data) - 1) :
        IF k = -1
        THEN UNCHANGED <<files, opens>>
        ELSE /\ files' = [files EXCEPT ![POSTS_FILE] =
                             [exists |-> TRUE,
                              lines |-> SubSeq(PostLines(all_posts_data), 1, k)]]
             /\ opens' = [opens EXCEPT ![POSTS_FILE] = @ + 1]
    /\ exc' = "save_posts"
    /\ pc' = "finally"
    /\ UNCHANGED <<reddit, closes, listed, served, inflight, next_id,
                   post_count, post_data, comments, ci, all_posts_data,
                   all_comments_data, log>>
    /\ UNCHANGED lvars

\* Lines 97-105: the same for the comments file; scrape_subreddit returns.
SaveComments ==
    /\ pc = "save_comments"
    /\ IF all_comments_data # <<>>
       THEN /\ files' = [files EXCEPT ![COMMENTS_FILE] =
                            [exists |-> TRUE, lines |-> CommentLines(all_comments_data)]]
            /\ opens' = [opens EXCEPT ![COMMENTS_FILE] = @ + 1]
            /\ log' = Append(log, Entry("info", "Successfully saved comments",
                                        Len(all_comments_data)))
       ELSE /\ log' = Append(log, Entry("info", "No comments found to save.", 0))
            /\ UNCHANGED <<files, opens>>
    /\ pc' = "finally"
    /\ UNCHANGED <<reddit, closes, exc, listed, served, inflight, next_id,
                   post_count, post_data, comments, ci, all_posts_data,
                   all_comments_data>>
    /\ UNCHANGED lvars

\* Lines 98-100 fail.
SaveCommentsFail ==
    /\ pc = "save_comments"
    /\ all_comments_data # <<>>
    /\ \E k \in -1..(Len(all_comments_data) - 1) :
        IF k = -1
        THEN UNCHANGED <<files, opens>>
        ELSE /\ files' = [files EXCEPT ![COMMENTS_FILE] =
                             [exists |-> TRUE,
                              lines |-> SubSeq(CommentLines(all_comments_data), 1, k)]]
             /\ opens' = [opens EXCEPT ![COMMENTS_FILE] = @ + 1]
    /\ exc' = "save_comments"
    /\ pc' = "finally"
    /\ UNCHANGED <<reddit, closes, listed, served, inflight, next_id,
                   post_count, post_data, comments, ci, all_posts_data,
                   all_comments_data, log>>
    /\ UNCHANGED lvars

\* main, lines 113-115: the finally clause closes the session, whether the try
\* block returned or raised.
Finally ==
    /\ pc = "finally"
    /\ reddit' = "closed"
    /\ closes' = closes + 1
    /\ log' = Append(log, Entry("info", "--- Script Finished ---", 0))
    /\ pc' = "exited"
    /\ UNCHANGED <<exc, listed, served, inflight, next_id, post_count,
                   post_data, comments, ci, all_posts_data, all_comments_data,
                   files, opens>>
    /\ UNCHANGED lvars

Next ==
    \/ Main
    \/ MainFail
    \/ Subreddit
    \/ NextPost
    \/ ListingEnd
    \/ SubmissionOk
    \/ SubmissionApiError
    \/ ReplaceMoreOk
    \/ ReplaceMoreApiError
    \/ FlattenStep
    \/ AppendPost
    \/ UnhandledFailure
    \/ SavePosts
    \/ SavePostsFail
    \/ SaveComments
    \/ SaveCommentsFail
    \/ Finally

Spec == Init /\ [][Next]_vars

\* ----------------------------------------------------------------- analyzer
\* The tokens json.loads tells apart.
MaxNum == 9
NumToks == {Num(n) : n \in 0..MaxNum}
NumVal(t) == CHOOSE n \in 0..MaxNum : Num(n) = t
StrToks == {"\"id\"", "\"post_id\"", "\"comments\""}
StrVal(t) == CASE t = "\"id\"" -> "id"
               [] t = "\"post_id\"" -> "post_id"
               [] t = "\"comments\"" -> "comments"
Whitespace == {" ", "\n"}

RECURSIVE SkipWs(_, _)
SkipWs(s, i) == IF i <= Len(s) /\ s[i] \in Whitespace THEN SkipWs(s, i + 1) ELSE i

NoParse == [ok |-> FALSE, val |-> <<>>, end |-> 0]
Parsed(v, e) == [ok |-> TRUE, val |-> v, end |-> e]

\* The decoder of json.loads: a value starting at or after position i of s.
\* The result names the position after the value.
RECURSIVE ParseValue(_, _), ParseMembers(_, _, _), ParseElements(_, _, _)
ParseValue(s, i) ==
    LET j == SkipWs(s, i) IN
    IF j > Len(s) THEN NoParse
    ELSE IF s[j] \in NumToks THEN Parsed(NumVal(s[j]), j + 1)
    ELSE IF s[j] \in StrToks THEN Parsed(StrVal(s[j]), j + 1)
    ELSE IF s[j] = "{"
         THEN LET k == SkipWs(s, j + 1) IN
              IF k <= Len(s) /\ s[k] = "}" THEN Parsed(<<>>, k + 1)
              ELSE ParseMembers(s, k, <<>>)
    ELSE IF s[j] = "["
         THEN LET k == SkipWs(s, j + 1) IN
              IF k <= Len(s) /\ s[k] = "]" THEN Parsed(<<>>, k + 1)
              ELSE ParseElements(s, k, <<>>)
    ELSE NoParse

\* The members of an object after "{" or ",": key, ":", value, then "," or "}".
ParseMembers(s, i, acc) ==
    LET j == SkipWs(s, i) IN
    IF j > Len(s) \/ s[j] \notin StrToks THEN NoParse
    ELSE LET c == SkipWs(s, j + 1) IN
         IF c > Len(s) \/ s[c] # ":" THEN NoParse
         ELSE LET v == ParseValue(s, c + 1) IN
              IF ~v.ok THEN NoParse
              ELSE LET e == SkipWs(s, v.end)
                       obj == (StrVal(s[j]) :> v.val) @@ acc
                   IN  IF e > Len(s) THEN NoParse
                       ELSE IF s[e] = "}" THEN Parsed(obj, e + 1)
                       ELSE IF s[e] = "," THEN ParseMembers(s, e + 1, obj)
                       ELSE NoParse

\* The elements of an array after "[" or ",": value, then "," or "]".
ParseElements(s, i, acc) ==
    LET v == ParseValue(s, i) IN
    IF ~v.ok THEN NoParse
    ELSE LET e == SkipWs(s, v.end) IN
         IF e > Len(s) THEN NoParse
         ELSE IF s[e] = "]" THEN Parsed(Append(acc, v.val), e + 1)
         ELSE IF s[e] = "," THEN ParseElements(s, e + 1, Append(acc, v.val))
         ELSE NoParse

\* json.loads(line): one value, surrounded by whitespace only; anything else
\* raises JSONDecodeError (ok = FALSE).
json_loads(line) ==
    LET v == ParseValue(line, 1) IN
    IF v.ok /\ SkipWs(line, v.end) > Len(line) THEN v ELSE NoParse

\* str.strip(): the line without its leading and trailing whitespace.
RECURSIVE RStrip(_)
RStrip(s) == IF s # <<>> /\ s[Len(s)] \in Whitespace
             THEN RStrip(SubSeq(s, 1, Len(s) - 1)) ELSE s
strip(s) == LET t == RStrip(s) IN SubSeq(t, SkipWs(t, 1), Len(t))

\* The lines a file is made of here.  The valid ones are lines the collector
\* writes, the last of them without its newline; the malformed ones are a blank
\* line, a line cut short, a line with trailing garbage, a line without its
\* opening brace and an object whose key has no value.
SampleComment == [id |-> 2, post_id |-> 1]
ValidLines ==
    { json_dumps_comment(SampleComment) \o <<"\n">>,
      json_dumps_post(PriorPost) \o <<"\n">>,
      json_dumps_post(NoPost) }
MalformedLines ==
    { <<"\n">>,
      SubSeq(json_dumps_post(PriorPost), 1, 14) \o <<"\n">>,
      json_dumps_comment(SampleComment) \o <<"}", "\n">>,
      Tail(json_dumps_comment(SampleComment)) \o <<"\n">>,
      <<"{", "\"id\"", ":", "}", "\n">> }
LinesOfFile == ValidLines \cup MalformedLines

\* The record a valid line was written from.
RecordOf(line) ==
    IF strip(line) = json_dumps_comment(SampleComment) THEN SampleComment
    ELSE IF strip(line) = json_dumps_post(PriorPost) THEN PriorPost
    ELSE NoPost

CollectorIdle ==
    /\ pc = "idle"
    /\ reddit = "none"
    /\ closes = 0
    /\ exc = "none"
    /\ listed = <<>>
    /\ served = <<>>
    /\ inflight = {}
    /\ next_id = 1
    /\ post_count = 0
    /\ post_data = NoPost
    /\ comments = <<>>
    /\ ci = 1
    /\ all_posts_data = <<>>
    /\ all_comments_data = <<>>
    /\ files = [n \in Files |-> NoFile]
    /\ opens = [n \in Files |-> 0]
    /\ log = <<>>

InitLoad ==
    /\ CollectorIdle
    /\ lpc = "call"
    /\ f \in UNION { [1..n -> LinesOfFile] : n \in 0..MaxLines }
    /\ \A i \in 1..(Len(f) - 1) : f[i][Len(f[i])] = "\n"
    /\ li = 1
    /\ data = <<>>
    /\ printed = <<>>

\* load_jsonl, lines 11-12: the list is created and the file opened.
LoadOpen ==
    /\ lpc = "call"
    /\ data' = <<>>
    /\ li' = 1
    /\ lpc' = "reading"
    /\ UNCHANGED <<f, printed>>
    /\ UNCHANGED svars

\* Variant of LoadLine: JSONDecodeError is not caught.
LoadLine_Raise ==
    /\ lpc = "reading"
    /\ li <= Len(f)
    /\ LET r == json_loads(f[li]) IN
       IF r.ok
       THEN /\ data' = Append(data, r.val)
            /\ li' = li + 1
            /\ UNCHANGED <<lpc, printed>>
       ELSE /\ lpc' = "raised"
            /\ UNCHANGED <<data, li, printed>>
    /\ UNCHANGED f
    /\ UNCHANGED svars

\* Lines 13-17: one line is decoded and appended, or reported and skipped.
LoadLine ==
    /\ lpc = "reading"
    /\ li <= Len(f)
    /\ LET r == json_loads(f[li]) IN
       IF r.ok
       THEN /\ data' = Append(data, r.val)
            /\ UNCHANGED printed
       ELSE /\ printed' = Append(printed, strip(f[li]))
            /\ UNCHANGED data
    /\ li' = li + 1
    /\ UNCHANGED <<lpc, f>>
    /\ UNCHANGED svars

\* Line 18: the file is exhausted; the records are returned.
LoadReturn ==
    /\ lpc = "reading"
    /\ li > Len(f)
    /\ lpc' = "done"
    /\ UNCHANGED <<f, li, data, printed>>
    /\ UNCHANGED svars

NextLoad ==
    \/ LoadOpen
    \/ LoadLine
    \/ LoadReturn

SpecLoad == InitLoad /\ [][NextLoad]_vars

\* ------------------------------------------------------------------ claims
\* The post ids of the listing are distinct.
DistinctIds == \A i, j \in DOMAIN listed : i # j => listed[i] # listed[j]

\* The number of records of s that refer to post id, and that carry id.
CountPost(s, id) == Len(SelectSeq(s, LAMBDA c : c.post_id = id))
CountId(s, id) == Len(SelectSeq(s, LAMBDA c : c.id = id))

\* The comment records the nodes served for listing position i call for.
ExpectedComments(i) ==
    LET real == SelectSeq(served[i].nodes, LAMBDA n : n.kind = "Comment")
    IN  [k \in 1..Len(real) |-> [id |-> real[k].id, post_id |-> listed[i]]]

RECURSIVE ConcatExpected(_)
ConcatExpected(n) ==
    IF n = 0 THEN <<>> ELSE ConcatExpected(n - 1) \o ExpectedComments(n)

\* The loop over the listing has ended and the save phase was entered.
TraversalDone ==
    \/ pc \in {"save_posts", "save_comments"}
    \/ pc \in {"finally", "exited"} /\ exc \in {"none", "save_posts", "save_comments"}

HasLog(msg) == \E k \in DOMAIN log : log[k].msg = msg

\* C1: for every post record of all_posts_data, the length of its embedded
\* comment list equals the number of records of all_comments_data that carry
\* its id as post_id, provided the post ids of the run are distinct.  It holds
\* in every state, so after every iteration and at the end of the loop.
C1_EmbeddedMatchesStream ==
    DistinctIds =>
        \A i \in DOMAIN all_posts_data :
            Len(all_posts_data[i].comments)
                = CountPost(all_comments_data, all_posts_data[i].id)

\* The loop has ended over three distinct posts: one with two comments, one whose
\* retrieval failed with an API error, one with one comment.
C1_Witness ==
    /\ pc = "save_posts"
    /\ DistinctIds
    /\ Len(all_posts_data) = 3
    /\ \E i \in DOMAIN served : served[i].status = "api_error"
    /\ \E i \in DOMAIN all_posts_data : Len(all_posts_data[i].comments) = 2
    /\ \E i \in DOMAIN all_posts_data : Len(all_posts_data[i].comments) = 1

\* C2: a post whose comment retrieval failed with an API error is in the post
\* collection, at its listing position, with an empty comment list; no comment
\* record refers to it; the failure does not abort the run; and once the loop
\* has ended every listed post has its record, in listing order.
C2_ApiErrorRecovered ==
    /\ \A i \in DOMAIN served :
        served[i].status = "api_error" =>
            /\ i <= Len(all_posts_data)
            /\ all_posts_data[i] = [id |-> listed[i], comments |-> <<>>]
            /\ DistinctIds => CountPost(all_comments_data, listed[i]) = 0
    /\ exc \in {"submission", "replace_more"} => served[post_count].status = "pending"
    /\ TraversalDone =>
        /\ Len(all_posts_data) = Len(listed)
        /\ \A i \in DOMAIN listed : all_posts_data[i].id = listed[i]

\* A run ended normally in which the second of three posts failed with an API
\* error and the posts before and after it were emitted with their comments.
C2_Witness ==
    /\ pc = "exited"
    /\ exc = "none"
    /\ Len(listed) = 3
    /\ served[2].status = "api_error"
    /\ Len(all_posts_data) = 3
    /\ all_posts_data[1].comments # <<>>
    /\ all_posts_data[2].comments = <<>>
    /\ all_posts_data[3].comments # <<>>

\* C3: no file is opened for writing while the listing is traversed, nor in a
\* run that an unhandled failure of the traversal ended; a file is opened at
\* most once per run; and a step changes a file only by opening it in the save
\* phase, after every listed post has been processed.
C3_NoWriteBeforeEnd ==
    /\ [](\A n \in Files : opens[n] <= 1)
    /\ []((pc \in {"start", "subreddit", "next", "submission", "replace_more", "flatten"}
            \/ exc \in AwaitTraversal)
          => \A n \in Files : opens[n] = 0)
    /\ [][\A n \in Files :
            files'[n] # files[n] =>
                /\ opens'[n] = opens[n] + 1
                /\ pc \in {"save_posts", "save_comments"}
                /\ Len(all_posts_data) = Len(listed)]_vars

\* A run ended by an unhandled failure of a comment retrieval, after posts and
\* comments were collected: both files still hold what the earlier run left.
C3_Witness ==
    /\ pc = "exited"
    /\ exc \in {"submission", "replace_more"}
    /\ all_posts_data # <<>>
    /\ all_comments_data # <<>>
    /\ files[POSTS_FILE].lines = PostLines(<<PriorPost>>)
    /\ files[COMMENTS_FILE].lines = CommentLines(PriorPost.comments)

\* C4: the session is closed at most once; a run that has ended has closed the
\* session it created exactly once, whatever ended it; the only run that ends
\* without a close is the one that failed to create the session.
C4_SessionClosed ==
    /\ closes <= 1
    /\ pc = "exited" =>
        IF exc = "start"
        THEN reddit = "none" /\ closes = 0
        ELSE reddit = "closed" /\ closes = 1

\* A run that a failure while writing the comments file ended.
C4_Witness ==
    /\ pc = "exited"
    /\ exc = "save_comments"
    /\ reddit = "closed"
    /\ opens[COMMENTS_FILE] = 1

\* C5: after a run that ended without error, the posts file holds exactly the
\* post records and the comments file exactly the comment records of that run.
C5_FilesHoldThisRun ==
    (pc = "exited" /\ exc = "none") =>
        /\ files[POSTS_FILE].lines = PostLines(all_posts_data)
        /\ files[COMMENTS_FILE].lines = CommentLines(all_comments_data)

\* C6: an empty collection raises no error, writes no record (its file is not
\* opened, or is empty) and is logged, for the posts and for the comments.
C6_EmptyCollections ==
    /\ exc = "save_posts" => all_posts_data # <<>>
    /\ exc = "save_comments" => all_comments_data # <<>>
    /\ (pc \in {"save_comments", "finally", "exited"} /\ TraversalDone
            /\ all_posts_data = <<>>)
        => /\ exc = "none"
           /\ opens[POSTS_FILE] = 0 \/ files[POSTS_FILE].lines = <<>>
           /\ HasLog("No posts found to save.")
    /\ (pc \in {"finally", "exited"} /\ TraversalDone /\ exc # "save_posts"
            /\ all_comments_data = <<>>)
        => /\ exc = "none"
           /\ opens[COMMENTS_FILE] = 0 \/ files[COMMENTS_FILE].lines = <<>>
           /\ HasLog("No comments found to save.")

\* A run over an empty listing has ended without error, with both messages.
C6_Witness ==
    /\ pc = "exited"
    /\ exc = "none"
    /\ listed = <<>>
    /\ opens = [n \in Files |-> 0]
    /\ HasLog("No posts found to save.")
    /\ HasLog("No comments found to save.")

\* C7: once the save phase is reached, every record of all_comments_data has
\* the id of a record of all_posts_data as its post_id.
C7_CommentsReferToPosts ==
    TraversalDone =>
        \A k \in DOMAIN all_comments_data :
            \E i \in DOMAIN all_posts_data :
                all_posts_data[i].id = all_comments_data[k].post_id

\* The save phase is reached with comments of two posts and an API error.
C7_Witness ==
    /\ pc = "save_posts"
    /\ \E i \in DOMAIN served : served[i].status = "api_error"
    /\ \E k, m \in DOMAIN all_comments_data :
        all_comments_data[k].post_id # all_comments_data[m].post_id

\* C8: with distinct post ids (comment ids are distinct), every comment served
\* for a processed post is once in all_comments_data, once in the embedded list
\* of its post and in no other post's embedded list; the stream holds no other
\* record.
C8_EachCommentOnce ==
    DistinctIds =>
        /\ \A i \in DOMAIN all_posts_data :
            \A n \in DOMAIN served[i].nodes :
                served[i].nodes[n].kind = "Comment" =>
                    LET id == served[i].nodes[n].id IN
                    /\ CountId(all_comments_data, id) = 1
                    /\ CountId(all_posts_data[i].comments, id) = 1
                    /\ \A j \in DOMAIN all_posts_data :
                        j # i => CountId(all_posts_data[j].comments, id) = 0
        /\ \A k \in DOMAIN all_comments_data :
            CountId(all_comments_data, all_comments_data[k].id) = 1
        /\ \A i \in DOMAIN all_posts_data :
            \A k \in DOMAIN all_posts_data[i].comments :
                all_posts_data[i].comments[k].post_id = all_posts_data[i].id

\* Two distinct posts with comments were processed, a placeholder was dropped.
C8_Witness ==
    /\ TraversalDone
    /\ DistinctIds
    /\ Len(all_posts_data) >= 2
    /\ all_posts_data[1].comments # <<>>
    /\ all_posts_data[2].comments # <<>>
    /\ \E i \in DOMAIN served : \E n \in DOMAIN served[i].nodes :
        served[i].nodes[n].kind = "MoreComments"

\* How far the run has got: before the session, the listing, the retrieval of
\* the comments of post post_count, the save phase, the end.
Progress ==
    CASE pc \in {"start", "idle"} -> 0
      [] pc = "subreddit" -> 1
      [] pc = "submission" -> 4 * post_count
      [] pc = "replace_more" -> 4 * post_count + 1
      [] pc = "flatten" -> 4 * post_count + 2
      [] pc = "next" -> 4 * post_count + 3
      [] pc = "save_posts" -> 4 * POST_LIMIT + 4
      [] pc = "save_comments" -> 4 * POST_LIMIT + 5
      [] pc = "finally" -> 4 * POST_LIMIT + 6
      [] pc = "exited" -> 4 * POST_LIMIT + 7

\* C10: at most one comment retrieval is awaited, that of the post last listed,
\* and only when every post listed before it has been processed; the run never
\* steps back; the post collection is the processed posts in listing order, and
\* the comment stream is the concatenation, in that order, of the comments of
\* each post in the order the client served them (followed, inside an
\* iteration, by the comments of the current post collected so far).
C10_OnePostAtATime ==
    /\ [](Cardinality(inflight) <= 1)
    /\ [](inflight # {} =>
            /\ inflight = {post_count}
            /\ post_count = Len(listed)
            /\ Len(all_posts_data) = post_count - 1)
    /\ [](pc \in {"submission", "replace_more"} => inflight = {post_count})
    /\ [](\A i \in DOMAIN all_posts_data :
            /\ all_posts_data[i].id = listed[i]
            /\ all_posts_data[i].comments = ExpectedComments(i))
    /\ [](all_comments_data =
            IF pc = "flatten"
            THEN ConcatExpected(Len(all_posts_data)) \o post_data.comments
            ELSE ConcatExpected(Len(all_posts_data)))
    /\ [](TraversalDone => Len(all_posts_data) = Len(listed))
    /\ [][Progress' >= Progress]_vars

\* A run ended normally over three posts, the first with two comments and the
\* third with one.
C10_Witness ==
    /\ pc = "exited"
    /\ exc = "none"
    /\ Len(all_posts_data) = 3
    /\ Len(all_posts_data[1].comments) = 2
    /\ Len(all_posts_data[3].comments) = 1
    /\ Len(all_comments_data) = 3

\* The valid lines of a file, in file order.
ValidOf(s) == SelectSeq(s, LAMBDA l : l \in ValidLines)

\* C9: load_jsonl never raises, and when it returns, its records are the
\* records of the valid lines, in file order, and it has reported every
\* malformed line, and only those, in file order.
C9_MalformedLinesSkipped ==
    /\ lpc # "raised"
    /\ lpc = "done" =>
        /\ data = [i \in 1..Len(ValidOf(f)) |-> RecordOf(ValidOf(f)[i])]
        /\ Len(printed) = Len(f) - Len(ValidOf(f))
        /\ printed = [i \in 1..Len(printed) |->
                        strip(SelectSeq(f, LAMBDA l : l \in MalformedLines)[i])]

\* A file of three lines, the malformed one between two valid ones of different
\* records, was read.
C9_Witness ==
    /\ lpc = "done"
    /\ Len(f) = 3
    /\ f[1] \in ValidLines
    /\ f[2] \in MalformedLines
    /\ f[3] \in ValidLines
    /\ f[1] # f[3]
    /\ Len(data) = 2
    /\ Len(printed) = 1

====
